---- MODULE Spec2Model ----
(***************************************************************************)
(* Model of the journal / memo / task tracker of src/app2.js (src/app.js   *)
(* is the earlier revision of the same program, without editMemo).         *)
(*                                                                         *)
(* The program is a set of async event handlers over an IndexedDB          *)
(* database with three object stores.  Every idb* wrapper opens its own    *)
(* transaction on one store; IndexedDB runs the transactions of one store  *)
(* in the order they were created, so each store has a FIFO queue of       *)
(* pending requests.  A pending request carries the continuation that      *)
(* runs when it settles (the code after the await).  One step of the model *)
(* is either the synchronous part of an event handler (up to its first     *)
(* storage await) or the settling of the oldest request of one store       *)
(* followed by the continuation up to its next storage await.              *)
(***************************************************************************)
EXTENDS Integers, Sequences, FiniteSets, TLC

\* ---------------------------------------------------------------- bounds
MaxDay == 2        \* calendar days the clock runs through
MaxKey == 2        \* keys the key generators of memos and tasks hand out
MaxJourKey == 3    \* keys the key generator of jour hands out
MaxPending == 2    \* a handler starts only with fewer pending requests
MaxFailures == 1   \* storage requests that fail with a device error
MaxStarts == 3     \* handlers the user starts after main

Days == 1..MaxDay
Texts == {"a", "b"}          \* trimmed, non-empty dialog inputs
TaskTitles == {"t"}
Inputs == Texts \cup {"", "null"}   \* "" : OK on blank text, "null" : cancel
Stores == {"jour", "memos", "tasks"}

VARIABLES
  today,             \* the clock: todayISO() and nowTime() read it
  currentJourTitle,  \* let currentJourTitle
  db,                \* object store name -> set of records
  gen,               \* object store name -> current number of its key generator
  queue,             \* object store name -> pending requests, oldest first
  jourList,          \* rows of #jourList with their handlers
  memoList,          \* rows of #memoList (the records the handlers closed over)
  taskList,          \* rows of #taskList
  hideDone,          \* #hideDone checkbox
  jourSearch,        \* #jourSearch text, 0 for blank, else the title typed
  failures,          \* device errors so far
  assigned,          \* object store name -> keys handed out, in order
  started,           \* handlers started so far
  ev                 \* what the last step did

vars == <<today, currentJourTitle, db, gen, queue, jourList, memoList, taskList,
          hideDone, jourSearch, failures, assigned, started, ev>>

\* ------------------------------------------------------------- utilities
todayISO == today
nowTime == today

\* at, alone and scn record how a deleteJour was invoked: the number of handlers
\* started up to it, whether nothing was pending, and whether the stores held one
\* journal with one memo and one task of it
NoCaller == [fn |-> "none", gid |-> 0, T |-> 0, title |-> 0, res |-> "none",
             at |-> 0, alone |-> FALSE, scn |-> FALSE]
\* memos and tasks are the fetched arrays, mi and ti how many of them the loops
\* have deleted
NoCas == [T |-> 0, target |-> 0, memos |-> <<>>, tasks |-> <<>>, mi |-> 0, ti |-> 0]

Event(k, err, thrown, done) == [k |-> k, err |-> err, thrown |-> thrown, done |-> done]

RECURSIVE SeqByKey(_, _)
SeqByKey(S, field) ==
  IF S = {} THEN <<>>
  ELSE LET m == CHOOSE x \in S : \A y \in S : x[field] <= y[field]
       IN <<m>> \o SeqByKey(S \ {m}, field)

RECURSIVE SortDesc(_)
SortDesc(S) ==
  IF S = {} THEN <<>>
  ELSE LET m == CHOOSE x \in S : \A y \in S : x.jour_title >= y.jour_title
       IN <<m>> \o SortDesc(S \ {m})

Range(s) == {s[i] : i \in 1..Len(s)}

\* ------------------------------------------------------------ object stores
keyPath == [jour |-> "jour_id", memos |-> "memo_id", tasks |-> "id"]

Keys(store) == {r[keyPath[store]] : r \in db[store]}

WithKey(store, value, k) ==
  CASE store = "jour" ->
         [jour_id |-> k, jour_title |-> value.jour_title, created_at |-> value.created_at]
    [] store = "memos" ->
         [memo_id |-> k, memo_title |-> value.memo_title,
          jour_title |-> value.jour_title, created_at |-> value.created_at]
    [] store = "tasks" ->
         [id |-> k, title |-> value.title, done |-> value.done,
          jour_title |-> value.jour_title, created_at |-> value.created_at]

\* variant: the index jour_title created with unique: false
UniqueViolation_NotUnique(store, value, k) == FALSE

\* the unique index jour_title of store jour: a record under another key has the title
UniqueViolation(store, value, k) ==
  /\ store = "jour"
  /\ \E r \in db.jour : r.jour_title = value.jour_title /\ r.jour_id # k

\* variant: the key after the largest stored key, as without a key generator
NextKey_AfterLargest(store) ==
  IF Keys(store) = {} THEN 1
  ELSE (CHOOSE k \in Keys(store) : \A j \in Keys(store) : j <= k) + 1

\* the key the key generator of the store hands out
NextKey(store) == gen[store]

\* What settles a request: err, the stores and key generators after it, and val,
\* the value the promise resolves with.
Settled(err, d, g, val) == [err |-> err, db |-> d, gen |-> g, val |-> val]

\* variant: add overwriting the record that holds the title, as an upsert by title
idbAdd_Overwrite(store, value) ==
  LET k == NextKey(store) IN
  Settled("none",
          [db EXCEPT ![store] = {r \in @ : ~(store = "jour" /\ r.jour_title = value.jour_title)}
                                   \cup {WithKey(store, value, k)}],
          [gen EXCEPT ![store] = k + 1],
          k)

idbAdd(store, value) ==
  LET k == NextKey(store) IN
  IF UniqueViolation(store, value, k)
  THEN Settled("ConstraintViolation", db, gen, 0)
  ELSE Settled("none",
               [db EXCEPT ![store] = @ \cup {WithKey(store, value, k)}],
               [gen EXCEPT ![store] = k + 1],
               k)

idbPut(store, value) ==
  LET k == value[keyPath[store]] IN
  IF UniqueViolation(store, value, k)
  THEN Settled("ConstraintViolation", db, gen, 0)
  ELSE Settled("none",
               [db EXCEPT ![store] = {r \in @ : r[keyPath[store]] # k} \cup {value}],
               [gen EXCEPT ![store] = IF k >= @ THEN k + 1 ELSE @],
               k)

\* variant: delete rejecting a key that no record has
idbDelete_Strict(store, key) ==
  IF key \in Keys(store)
  THEN Settled("none", [db EXCEPT ![store] = {r \in @ : r[keyPath[store]] # key}], gen, 0)
  ELSE Settled("NotFound", db, gen, 0)

idbDelete(store, key) ==
  Settled("none", [db EXCEPT ![store] = {r \in @ : r[keyPath[store]] # key}], gen, 0)

idbGetAll(store) ==
  Settled("none", db, gen, SeqByKey(db[store], keyPath[store]))

\* variant: the index read without the key range, every record of the store
idbIndexGetAll_All(store, indexName, indexValue) ==
  Settled("none", db, gen, SeqByKey(db[store], keyPath[store]))

idbIndexGetAll(store, indexName, indexValue) ==
  Settled("none", db, gen,
          SeqByKey({r \in db[store] : r[indexName] = indexValue}, keyPath[store]))

DeviceFailure == Settled("DeviceFailure", db, gen, 0)

\* ------------------------------------------------------- pending requests
\* k names the continuation, arg is the argument of the storage call, cas the
\* locals of deleteJour, caller the operation whose promise the request settles.
Req(k, arg, cas, caller) == [k |-> k, arg |-> arg, cas |-> cas, caller |-> caller]

Caller(fn, T) == [NoCaller EXCEPT !.fn = fn, !.T = T]

Enq(q, store, r) == [q EXCEPT ![store] = Append(@, r)]
Deq(store) == [queue EXCEPT ![store] = Tail(@)]
Pending(q) == Len(q.jour) + Len(q.memos) + Len(q.tasks)
AllReqs(q) == Range(q.jour) \cup Range(q.memos) \cup Range(q.tasks)
Idle == Pending(queue) = 0

\* Promise.all: the renders of one renderAll share a group number
NewGid(q) ==
  CHOOSE g \in 1..(Pending(q) + 1) :
    /\ \A r \in AllReqs(q) : r.caller.gid # g
    /\ \A h \in 1..(g - 1) : \E r \in AllReqs(q) : r.caller.gid = h

\* the promise of the caller is fulfilled once every render of its group has settled
Fulfilled(q, c) ==
  IF c.gid = 0 \/ \A r \in AllReqs(q) : r.caller.gid # c.gid THEN c ELSE NoCaller

\* Promise.all rejects at the first rejection: the other renders go on alone
Detach(q, c) ==
  LET Alone(rs) == [i \in 1..Len(rs) |->
                      IF c.gid # 0 /\ rs[i].caller.gid = c.gid
                      THEN [rs[i] EXCEPT !.caller = NoCaller] ELSE rs[i]]
  IN [jour |-> Alone(q.jour), memos |-> Alone(q.memos), tasks |-> Alone(q.tasks)]

\* a handler starts only while the model has room for its requests
CanStart == Pending(queue) < MaxPending /\ started < MaxStarts

WillAdd(store, r) ==
  CASE store = "jour" -> r.k \in {"ensureTodayJour", "deleteJour", "deleteJour.memos",
                                   "deleteJour.tasks", "deleteJour.delMemo",
                                   "deleteJour.delTask", "deleteJour.delJour"}
    [] store = "memos" -> r.k = "addMemo"
    [] store = "tasks" -> r.k = "addTask"

Cap(store) == IF store = "jour" THEN MaxJourKey ELSE MaxKey

Room(store) ==
  gen[store] + Cardinality(UNION {{<<s, i>> : i \in {j \in 1..Len(queue[s]) :
                                                       WillAdd(store, queue[s][j])}} :
                                  s \in Stores})
    <= Cap(store)

Fails == IF failures < MaxFailures THEN BOOLEAN ELSE {FALSE}

\* -------------------------------------------------------------- rendering
renderJour(q, search, caller) == Enq(q, "jour", Req("renderJour", search, NoCas, caller))

renderMemos(q, title, caller) == Enq(q, "memos", Req("renderMemos", title, NoCas, caller))

renderTasks(q, title, hide, caller) ==
  Enq(q, "tasks", Req("renderTasks", [title |-> title, hideDone |-> hide], NoCas, caller))

renderAll(q, title, caller) ==
  LET c == [caller EXCEPT !.gid = NewGid(q)]
  IN renderTasks(renderMemos(renderJour(q, jourSearch, c), title, c), title, hideDone, c)

\* rows of #jourList: newest title first, filtered by the search text, each with
\* the OPEN badge or the open button
JourRows(rows, q) ==
  LET sorted == SortDesc(Range(rows))
      Shown(r) == q = 0 \/ r.jour_title = q
      kept == SelectSeq(sorted, Shown)
  IN [i \in 1..Len(kept) |-> [r |-> kept[i], isCurrent |-> kept[i].jour_title = currentJourTitle]]

TaskRows(rows, hide) ==
  LET NotDone(t) == t.done = 0
  IN IF hide THEN SelectSeq(rows, NotDone) ELSE rows

SettleRenderJour(dev) ==
  /\ queue.jour # <<>> /\ Head(queue.jour).k = "renderJour"
  /\ LET req == Head(queue.jour)
         s == IF dev THEN DeviceFailure ELSE idbGetAll("jour")
     IN IF s.err # "none"
        THEN /\ queue' = Detach(Deq("jour"), req.caller)
             /\ ev' = Event("renderJour", s.err, TRUE, NoCaller)
             /\ UNCHANGED jourList
        ELSE /\ queue' = Deq("jour")
             /\ jourList' = JourRows(s.val, req.arg)
             /\ ev' = Event("renderJour", "none", FALSE, Fulfilled(Deq("jour"), req.caller))
  /\ failures' = IF dev THEN failures + 1 ELSE failures
  /\ UNCHANGED <<started, today, currentJourTitle, db, gen, memoList, taskList, hideDone,
                 jourSearch, assigned>>

SettleRenderMemos(dev) ==
  /\ queue.memos # <<>> /\ Head(queue.memos).k = "renderMemos"
  /\ LET req == Head(queue.memos)
         s == IF dev THEN DeviceFailure ELSE idbIndexGetAll("memos", "jour_title", req.arg)
     IN IF s.err # "none"
        THEN /\ queue' = Detach(Deq("memos"), req.caller)
             /\ ev' = Event("renderMemos", s.err, TRUE, NoCaller)
             /\ UNCHANGED memoList
        ELSE /\ queue' = Deq("memos")
             /\ memoList' = SeqByKey(Range(s.val), "memo_id")
             /\ ev' = Event("renderMemos", "none", FALSE, Fulfilled(Deq("memos"), req.caller))
  /\ failures' = IF dev THEN failures + 1 ELSE failures
  /\ UNCHANGED <<started, today, currentJourTitle, db, gen, jourList, taskList, hideDone,
                 jourSearch, assigned>>

SettleRenderTasks(dev) ==
  /\ queue.tasks # <<>> /\ Head(queue.tasks).k = "renderTasks"
  /\ LET req == Head(queue.tasks)
         s == IF dev THEN DeviceFailure
              ELSE idbIndexGetAll("tasks", "jour_title", req.arg.title)
     IN IF s.err # "none"
        THEN /\ queue' = Detach(Deq("tasks"), req.caller)
             /\ ev' = Event("renderTasks", s.err, TRUE, NoCaller)
             /\ UNCHANGED taskList
        ELSE /\ queue' = Deq("tasks")
             /\ taskList' = TaskRows(SeqByKey(Range(s.val), "id"), req.arg.hideDone)
             /\ ev' = Event("renderTasks", "none", FALSE, Fulfilled(Deq("tasks"), req.caller))
  /\ failures' = IF dev THEN failures + 1 ELSE failures
  /\ UNCHANGED <<started, today, currentJourTitle, db, gen, jourList, memoList, hideDone,
                 jourSearch, assigned>>

\* ------------------------------------------------------ ensureTodayJour
\* the synchronous part: the caller sets currentJourTitle' = todayISO
ensureTodayJour(q, caller) ==
  Enq(q, "jour",
      Req("ensureTodayJour", [jour_title |-> todayISO, created_at |-> nowTime], NoCas,
          [caller EXCEPT !.title = todayISO]))

\* what the catch clause of ensureTodayJour lets through to renderAll
Caught(err) == TRUE

ClickNewToday ==
  /\ CanStart /\ Room("jour")
  /\ currentJourTitle' = todayISO
  /\ queue' = ensureTodayJour(queue, Caller("ensureTodayJour", 0))
  /\ ev' = Event("click", "none", FALSE, NoCaller)
  /\ started' = started + 1
  /\ UNCHANGED <<today, db, gen, jourList, memoList, taskList, hideDone, jourSearch,
                 failures, assigned>>

SettleEnsureTodayJour(dev) ==
  /\ queue.jour # <<>> /\ Head(queue.jour).k = "ensureTodayJour"
  /\ LET req == Head(queue.jour)
         s == IF dev THEN DeviceFailure ELSE idbAdd("jour", req.arg)
     IN /\ db' = s.db
        /\ gen' = s.gen
        /\ assigned' = IF s.err = "none"
                       THEN [assigned EXCEPT !.jour = Append(@, s.val)] ELSE assigned
        /\ IF s.err = "none" \/ Caught(s.err)
           THEN /\ queue' = renderAll(Deq("jour"), currentJourTitle,
                                      [req.caller EXCEPT !.res = s.err])
                /\ ev' = Event("ensureTodayJour", s.err, FALSE, NoCaller)
           ELSE /\ queue' = Deq("jour")
                /\ ev' = Event("ensureTodayJour", s.err, TRUE, NoCaller)
  /\ failures' = IF dev THEN failures + 1 ELSE failures
  /\ UNCHANGED <<started, today, currentJourTitle, jourList, memoList, taskList, hideDone,
                 jourSearch>>

\* ------------------------------------------------------- setCurrentJour
\* variant: setCurrentJour creating the journal it opens, as ensureTodayJour does
ClickOpenJour_Ensures(i) ==
  /\ CanStart
  /\ i \in 1..Len(jourList) /\ ~jourList[i].isCurrent
  /\ currentJourTitle' = jourList[i].r.jour_title
  /\ queue' = Enq(queue, "jour",
                  Req("ensureTodayJour",
                      [jour_title |-> jourList[i].r.jour_title, created_at |-> nowTime],
                      NoCas,
                      [Caller("setCurrentJour", jourList[i].r.jour_title)
                         EXCEPT !.title = jourList[i].r.jour_title]))
  /\ ev' = Event("setCurrentJour", "none", FALSE, NoCaller)
  /\ started' = started + 1
  /\ UNCHANGED <<today, db, gen, jourList, memoList, taskList, hideDone, jourSearch,
                 failures, assigned>>

ClickOpenJour(i) ==
  /\ CanStart
  /\ i \in 1..Len(jourList) /\ ~jourList[i].isCurrent
  /\ currentJourTitle' = jourList[i].r.jour_title
  /\ queue' = renderAll(queue, jourList[i].r.jour_title,
                        Caller("setCurrentJour", jourList[i].r.jour_title))
  /\ ev' = Event("setCurrentJour", "none", FALSE, NoCaller)
  /\ started' = started + 1
  /\ UNCHANGED <<today, db, gen, jourList, memoList, taskList, hideDone, jourSearch,
                 failures, assigned>>

\* ------------------------------------------------------------ deleteJour
\* the loops over the fetched memos and tasks, then the journal itself
\* variant: deleteJour without the loop over the fetched tasks
CascadeStep_SkipTasks(q, cas, caller) ==
  IF cas.mi < Len(cas.memos)
  THEN Enq(q, "memos",
           Req("deleteJour.delMemo", cas.memos[cas.mi + 1].memo_id, cas, caller))
  ELSE Enq(q, "jour", Req("deleteJour.delJour", cas.target.jour_id, cas, caller))

CascadeStep(q, cas, caller) ==
  IF cas.mi < Len(cas.memos)
  THEN Enq(q, "memos",
           Req("deleteJour.delMemo", cas.memos[cas.mi + 1].memo_id, cas, caller))
  ELSE IF cas.ti < Len(cas.tasks)
       THEN Enq(q, "tasks",
                Req("deleteJour.delTask", cas.tasks[cas.ti + 1].id, cas, caller))
       ELSE Enq(q, "jour", Req("deleteJour.delJour", cas.target.jour_id, cas, caller))

\* the stores hold one journal, titled T, and one memo and one task of it
Scenario(T) ==
  /\ Cardinality(db.jour) = 1 /\ \A j \in db.jour : j.jour_title = T
  /\ Cardinality(db.memos) = 1 /\ \A m \in db.memos : m.jour_title = T
  /\ Cardinality(db.tasks) = 1 /\ \A t \in db.tasks : t.jour_title = T

ClickDelJour(i) ==
  /\ CanStart /\ Room("jour")
  /\ i \in 1..Len(jourList)
  /\ LET T == jourList[i].r.jour_title
     IN queue' = Enq(queue, "jour",
                     Req("deleteJour", T, [NoCas EXCEPT !.T = T],
                         [Caller("deleteJour", T) EXCEPT !.at = started + 1,
                                                         !.alone = Idle,
                                                         !.scn = Idle /\ Scenario(T)]))
  /\ ev' = Event("click", "none", FALSE, NoCaller)
  /\ started' = started + 1
  /\ UNCHANGED <<today, currentJourTitle, db, gen, jourList, memoList, taskList, hideDone,
                 jourSearch, failures, assigned>>

\* variant: deleteJour without the line  if (!target) return
SettleDeleteJourFind_NoReturn(dev) ==
  /\ queue.jour # <<>> /\ Head(queue.jour).k = "deleteJour"
  /\ LET req == Head(queue.jour)
         s == IF dev THEN DeviceFailure ELSE idbGetAll("jour")
         Match(j) == j.jour_title = req.cas.T
         found == IF s.err = "none" THEN SelectSeq(s.val, Match) ELSE <<>>
     IN IF s.err # "none"
        THEN /\ queue' = Deq("jour")
             /\ ev' = Event("deleteJour", s.err, TRUE, NoCaller)
        ELSE /\ queue' = Enq(Deq("jour"), "memos",
                             Req("deleteJour.memos", req.cas.T,
                                 [req.cas EXCEPT !.target =
                                    IF found = <<>> THEN [jour_id |-> 0] ELSE Head(found)],
                                 req.caller))
             /\ ev' = Event("deleteJour", "none", FALSE, NoCaller)
  /\ failures' = IF dev THEN failures + 1 ELSE failures
  /\ UNCHANGED <<started, today, currentJourTitle, db, gen, jourList, memoList, taskList, hideDone,
                 jourSearch, assigned>>

\* await idbGetAll("jour"); find the target
SettleDeleteJourFind(dev) ==
  /\ queue.jour # <<>> /\ Head(queue.jour).k = "deleteJour"
  /\ LET req == Head(queue.jour)
         s == IF dev THEN DeviceFailure ELSE idbGetAll("jour")
         Match(j) == j.jour_title = req.cas.T
         found == IF s.err = "none" THEN SelectSeq(s.val, Match) ELSE <<>>
     IN CASE s.err # "none" ->
               /\ queue' = Deq("jour")
               /\ ev' = Event("deleteJour", s.err, TRUE, NoCaller)
          [] s.err = "none" /\ found = <<>> ->
               /\ queue' = Deq("jour")
               /\ ev' = Event("deleteJour", "none", FALSE,
                              [req.caller EXCEPT !.res = "notarget"])
          [] s.err = "none" /\ found # <<>> ->
               /\ queue' = Enq(Deq("jour"), "memos",
                               Req("deleteJour.memos", req.cas.T,
                                   [req.cas EXCEPT !.target = Head(found)], req.caller))
               /\ ev' = Event("deleteJour", "none", FALSE, NoCaller)
  /\ failures' = IF dev THEN failures + 1 ELSE failures
  /\ UNCHANGED <<started, today, currentJourTitle, db, gen, jourList, memoList, taskList, hideDone,
                 jourSearch, assigned>>

\* variant: deleteJour fetching the memos with idbGetAll("memos")
SettleDeleteJourMemos_All(dev) ==
  /\ queue.memos # <<>> /\ Head(queue.memos).k = "deleteJour.memos"
  /\ LET req == Head(queue.memos)
         s == IF dev THEN DeviceFailure ELSE idbGetAll("memos")
     IN IF s.err # "none"
        THEN /\ queue' = Deq("memos")
             /\ ev' = Event("deleteJour.memos", s.err, TRUE, NoCaller)
        ELSE /\ queue' = Enq(Deq("memos"), "tasks",
                             Req("deleteJour.tasks", req.cas.T,
                                 [req.cas EXCEPT !.memos = s.val], req.caller))
             /\ ev' = Event("deleteJour.memos", "none", FALSE, NoCaller)
  /\ failures' = IF dev THEN failures + 1 ELSE failures
  /\ UNCHANGED <<started, today, currentJourTitle, db, gen, jourList, memoList, taskList, hideDone,
                 jourSearch, assigned>>

\* await idbIndexGetAll("memos", "jour_title", jourTitle)
SettleDeleteJourMemos(dev) ==
  /\ queue.memos # <<>> /\ Head(queue.memos).k = "deleteJour.memos"
  /\ LET req == Head(queue.memos)
         s == IF dev THEN DeviceFailure ELSE idbIndexGetAll("memos", "jour_title", req.arg)
     IN IF s.err # "none"
        THEN /\ queue' = Deq("memos")
             /\ ev' = Event("deleteJour.memos", s.err, TRUE, NoCaller)
        ELSE /\ queue' = Enq(Deq("memos"), "tasks",
                             Req("deleteJour.tasks", req.cas.T,
                                 [req.cas EXCEPT !.memos = s.val], req.caller))
             /\ ev' = Event("deleteJour.memos", "none", FALSE, NoCaller)
  /\ failures' = IF dev THEN failures + 1 ELSE failures
  /\ UNCHANGED <<started, today, currentJourTitle, db, gen, jourList, memoList, taskList, hideDone,
                 jourSearch, assigned>>

\* await idbIndexGetAll("tasks", "jour_title", jourTitle); then the first delete
SettleDeleteJourTasks(dev) ==
  /\ queue.tasks # <<>> /\ Head(queue.tasks).k = "deleteJour.tasks"
  /\ LET req == Head(queue.tasks)
         s == IF dev THEN DeviceFailure ELSE idbIndexGetAll("tasks", "jour_title", req.arg)
     IN IF s.err # "none"
        THEN /\ queue' = Deq("tasks")
             /\ ev' = Event("deleteJour.tasks", s.err, TRUE, NoCaller)
        ELSE /\ queue' = CascadeStep(Deq("tasks"), [req.cas EXCEPT !.tasks = s.val],
                                     req.caller)
             /\ ev' = Event("deleteJour.tasks", "none", FALSE, NoCaller)
  /\ failures' = IF dev THEN failures + 1 ELSE failures
  /\ UNCHANGED <<started, today, currentJourTitle, db, gen, jourList, memoList, taskList, hideDone,
                 jourSearch, assigned>>

\* variant: the memo loop of deleteJour catching a failed delete and going on
SettleDeleteJourDelMemo_GoesOn(dev) ==
  /\ queue.memos # <<>> /\ Head(queue.memos).k = "deleteJour.delMemo"
  /\ LET req == Head(queue.memos)
         s == IF dev THEN DeviceFailure ELSE idbDelete("memos", req.arg)
     IN /\ db' = s.db
        /\ queue' = CascadeStep(Deq("memos"), [req.cas EXCEPT !.mi = @ + 1], req.caller)
        /\ ev' = Event("deleteJour.delMemo", s.err, FALSE, NoCaller)
  /\ failures' = IF dev THEN failures + 1 ELSE failures
  /\ UNCHANGED <<started, today, currentJourTitle, gen, jourList, memoList, taskList, hideDone,
                 jourSearch, assigned>>

\* for (const m of memos) await idbDelete("memos", m.memo_id)
SettleDeleteJourDelMemo(dev) ==
  /\ queue.memos # <<>> /\ Head(queue.memos).k = "deleteJour.delMemo"
  /\ LET req == Head(queue.memos)
         s == IF dev THEN DeviceFailure ELSE idbDelete("memos", req.arg)
     IN /\ db' = s.db
        /\ IF s.err # "none"
           THEN /\ queue' = Deq("memos")
                /\ ev' = Event("deleteJour.delMemo", s.err, TRUE, NoCaller)
           ELSE /\ queue' = CascadeStep(Deq("memos"),
                                        [req.cas EXCEPT !.mi = @ + 1], req.caller)
                /\ ev' = Event("deleteJour.delMemo", "none", FALSE, NoCaller)
  /\ failures' = IF dev THEN failures + 1 ELSE failures
  /\ UNCHANGED <<started, today, currentJourTitle, gen, jourList, memoList, taskList, hideDone,
                 jourSearch, assigned>>

\* for (const t of tasks) await idbDelete("tasks", t.id)
SettleDeleteJourDelTask(dev) ==
  /\ queue.tasks # <<>> /\ Head(queue.tasks).k = "deleteJour.delTask"
  /\ LET req == Head(queue.tasks)
         s == IF dev THEN DeviceFailure ELSE idbDelete("tasks", req.arg)
     IN /\ db' = s.db
        /\ IF s.err # "none"
           THEN /\ queue' = Deq("tasks")
                /\ ev' = Event("deleteJour.delTask", s.err, TRUE, NoCaller)
           ELSE /\ queue' = CascadeStep(Deq("tasks"),
                                        [req.cas EXCEPT !.ti = @ + 1], req.caller)
                /\ ev' = Event("deleteJour.delTask", "none", FALSE, NoCaller)
  /\ failures' = IF dev THEN failures + 1 ELSE failures
  /\ UNCHANGED <<started, today, currentJourTitle, gen, jourList, memoList, taskList, hideDone,
                 jourSearch, assigned>>

\* await idbDelete("jour", target.jour_id); toast; await ensureTodayJour()
SettleDeleteJourDelJour(dev) ==
  /\ queue.jour # <<>> /\ Head(queue.jour).k = "deleteJour.delJour"
  /\ LET req == Head(queue.jour)
         s == IF dev THEN DeviceFailure ELSE idbDelete("jour", req.arg)
     IN /\ db' = s.db
        /\ IF s.err # "none"
           THEN /\ queue' = Deq("jour")
                /\ ev' = Event("deleteJour.delJour", s.err, TRUE, NoCaller)
                /\ UNCHANGED currentJourTitle
           ELSE /\ currentJourTitle' = todayISO
                /\ queue' = ensureTodayJour(Deq("jour"), req.caller)
                /\ ev' = Event("deleteJour.delJour", "none", FALSE, NoCaller)
  /\ failures' = IF dev THEN failures + 1 ELSE failures
  /\ UNCHANGED <<started, today, gen, jourList, memoList, taskList, hideDone, jourSearch, assigned>>

\* ------------------------------------------------------- memos and tasks
\* The prompt dialog is modal (showModal), so no other handler starts while it
\* is open: the handler is taken at the close of the dialog, with its input v.
ClickAddMemo(v) ==
  /\ CanStart
  /\ IF v \in {"", "null"}
     THEN /\ ev' = Event("addMemo.return", "none", FALSE, NoCaller)
          /\ UNCHANGED queue
     ELSE /\ Room("memos")
          /\ queue' = Enq(queue, "memos",
                          Req("addMemo",
                              [memo_title |-> v, jour_title |-> currentJourTitle,
                               created_at |-> nowTime],
                              NoCas, Caller("addMemo", 0)))
          /\ ev' = Event("click", "none", FALSE, NoCaller)
  /\ started' = started + 1
  /\ UNCHANGED <<today, currentJourTitle, db, gen, jourList, memoList, taskList, hideDone,
                 jourSearch, failures, assigned>>

SettleAddMemo(dev) ==
  /\ queue.memos # <<>> /\ Head(queue.memos).k = "addMemo"
  /\ LET req == Head(queue.memos)
         s == IF dev THEN DeviceFailure ELSE idbAdd("memos", req.arg)
     IN /\ db' = s.db
        /\ gen' = s.gen
        /\ IF s.err # "none"
           THEN /\ queue' = Deq("memos")
                /\ ev' = Event("addMemo", s.err, TRUE, NoCaller)
                /\ UNCHANGED assigned
           ELSE /\ queue' = renderMemos(Deq("memos"), currentJourTitle, req.caller)
                /\ ev' = Event("addMemo", "none", FALSE, NoCaller)
                /\ assigned' = [assigned EXCEPT !.memos = Append(@, s.val)]
  /\ failures' = IF dev THEN failures + 1 ELSE failures
  /\ UNCHANGED <<started, today, currentJourTitle, jourList, memoList, taskList, hideDone,
                 jourSearch>>

\* the record the put of editMemo writes: { ...memo, memo_title: v }
EditedMemo(memo, v) == [memo EXCEPT !.memo_title = v]

\* variant: editMemo without the line that rejects blank text
ClickEditMemo_NoBlankCheck(i, v) ==
  /\ CanStart
  /\ i \in 1..Len(memoList)
  /\ IF v = "null"
     THEN /\ ev' = Event("editMemo.cancel", "none", FALSE, NoCaller)
          /\ UNCHANGED queue
     ELSE /\ queue' = Enq(queue, "memos",
                          Req("editMemo", EditedMemo(memoList[i], v), NoCas,
                              Caller("editMemo", 0)))
          /\ ev' = Event("click", "none", FALSE, NoCaller)
  /\ started' = started + 1
  /\ UNCHANGED <<today, currentJourTitle, db, gen, jourList, memoList, taskList, hideDone,
                 jourSearch, failures, assigned>>

ClickEditMemo(i, v) ==
  /\ CanStart
  /\ i \in 1..Len(memoList)
  /\ CASE v = "null" ->
            /\ ev' = Event("editMemo.cancel", "none", FALSE, NoCaller)
            /\ UNCHANGED queue
       [] v = "" ->
            /\ ev' = Event("editMemo.blank", "none", FALSE, NoCaller)
            /\ UNCHANGED queue
       [] v \notin {"", "null"} ->
            /\ queue' = Enq(queue, "memos",
                            Req("editMemo", EditedMemo(memoList[i], v), NoCas,
                                Caller("editMemo", 0)))
            /\ ev' = Event("click", "none", FALSE, NoCaller)
  /\ started' = started + 1
  /\ UNCHANGED <<today, currentJourTitle, db, gen, jourList, memoList, taskList, hideDone,
                 jourSearch, failures, assigned>>

SettleEditMemo(dev) ==
  /\ queue.memos # <<>> /\ Head(queue.memos).k = "editMemo"
  /\ LET req == Head(queue.memos)
         s == IF dev THEN DeviceFailure ELSE idbPut("memos", req.arg)
     IN /\ db' = s.db
        /\ gen' = s.gen
        /\ IF s.err # "none"
           THEN /\ queue' = Deq("memos")
                /\ ev' = Event("editMemo", s.err, TRUE, NoCaller)
           ELSE /\ queue' = renderMemos(Deq("memos"), currentJourTitle, req.caller)
                /\ ev' = Event("editMemo", "none", FALSE, NoCaller)
  /\ failures' = IF dev THEN failures + 1 ELSE failures
  /\ UNCHANGED <<started, today, currentJourTitle, jourList, memoList, taskList, hideDone,
                 jourSearch, assigned>>

ClickAddTask(v) ==
  /\ CanStart
  /\ IF v \in {"", "null"}
     THEN /\ ev' = Event("addTask.return", "none", FALSE, NoCaller)
          /\ UNCHANGED queue
     ELSE /\ Room("tasks")
          /\ queue' = Enq(queue, "tasks",
                          Req("addTask",
                              [title |-> v, done |-> 0, jour_title |-> currentJourTitle,
                               created_at |-> nowTime],
                              NoCas, Caller("addTask", 0)))
          /\ ev' = Event("click", "none", FALSE, NoCaller)
  /\ started' = started + 1
  /\ UNCHANGED <<today, currentJourTitle, db, gen, jourList, memoList, taskList, hideDone,
                 jourSearch, failures, assigned>>

SettleAddTask(dev) ==
  /\ queue.tasks # <<>> /\ Head(queue.tasks).k = "addTask"
  /\ LET req == Head(queue.tasks)
         s == IF dev THEN DeviceFailure ELSE idbAdd("tasks", req.arg)
     IN /\ db' = s.db
        /\ gen' = s.gen
        /\ IF s.err # "none"
           THEN /\ queue' = Deq("tasks")
                /\ ev' = Event("addTask", s.err, TRUE, NoCaller)
                /\ UNCHANGED assigned
           ELSE /\ queue' = renderTasks(Deq("tasks"), currentJourTitle, hideDone, req.caller)
                /\ ev' = Event("addTask", "none", FALSE, NoCaller)
                /\ assigned' = [assigned EXCEPT !.tasks = Append(@, s.val)]
  /\ failures' = IF dev THEN failures + 1 ELSE failures
  /\ UNCHANGED <<started, today, currentJourTitle, jourList, memoList, taskList, hideDone,
                 jourSearch>>

ClickDelMemo(i) ==
  /\ CanStart
  /\ i \in 1..Len(memoList)
  /\ queue' = Enq(queue, "memos",
                  Req("deleteMemo", memoList[i].memo_id, NoCas,
                      Caller("deleteMemo", memoList[i].memo_id)))
  /\ ev' = Event("click", "none", FALSE, NoCaller)
  /\ started' = started + 1
  /\ UNCHANGED <<today, currentJourTitle, db, gen, jourList, memoList, taskList, hideDone,
                 jourSearch, failures, assigned>>

SettleDeleteMemo(dev) ==
  /\ queue.memos # <<>> /\ Head(queue.memos).k = "deleteMemo"
  /\ LET req == Head(queue.memos)
         s == IF dev THEN DeviceFailure ELSE idbDelete("memos", req.arg)
     IN /\ db' = s.db
        /\ IF s.err # "none"
           THEN /\ queue' = Deq("memos")
                /\ ev' = Event("deleteMemo", s.err, TRUE, NoCaller)
           ELSE /\ queue' = renderMemos(Deq("memos"), currentJourTitle, req.caller)
                /\ ev' = Event("deleteMemo", "none", FALSE, NoCaller)
  /\ failures' = IF dev THEN failures + 1 ELSE failures
  /\ UNCHANGED <<started, today, currentJourTitle, gen, jourList, memoList, taskList, hideDone,
                 jourSearch, assigned>>

ClickDelTask(i) ==
  /\ CanStart
  /\ i \in 1..Len(taskList)
  /\ queue' = Enq(queue, "tasks",
                  Req("deleteTask", taskList[i].id, NoCas,
                      Caller("deleteTask", taskList[i].id)))
  /\ ev' = Event("click", "none", FALSE, NoCaller)
  /\ started' = started + 1
  /\ UNCHANGED <<today, currentJourTitle, db, gen, jourList, memoList, taskList, hideDone,
                 jourSearch, failures, assigned>>

SettleDeleteTask(dev) ==
  /\ queue.tasks # <<>> /\ Head(queue.tasks).k = "deleteTask"
  /\ LET req == Head(queue.tasks)
         s == IF dev THEN DeviceFailure ELSE idbDelete("tasks", req.arg)
     IN /\ db' = s.db
        /\ IF s.err # "none"
           THEN /\ queue' = Deq("tasks")
                /\ ev' = Event("deleteTask", s.err, TRUE, NoCaller)
           ELSE /\ queue' = renderTasks(Deq("tasks"), currentJourTitle, hideDone, req.caller)
                /\ ev' = Event("deleteTask", "none", FALSE, NoCaller)
  /\ failures' = IF dev THEN failures + 1 ELSE failures
  /\ UNCHANGED <<started, today, currentJourTitle, gen, jourList, memoList, taskList, hideDone,
                 jourSearch, assigned>>

\* variant: toggleTaskDone writing done: task.done + 1
ToggledTask_Increment(task) == [task EXCEPT !.done = @ + 1]

\* the record the put of toggleTaskDone writes: { ...task, done: task.done ? 0 : 1 }
ToggledTask(task) == [task EXCEPT !.done = IF task.done # 0 THEN 0 ELSE 1]

ClickToggle(i) ==
  /\ CanStart
  /\ i \in 1..Len(taskList)
  /\ queue' = Enq(queue, "tasks",
                  Req("toggleTaskDone", ToggledTask(taskList[i]), NoCas,
                      Caller("toggleTaskDone", taskList[i].id)))
  /\ ev' = Event("click", "none", FALSE, NoCaller)
  /\ started' = started + 1
  /\ UNCHANGED <<today, currentJourTitle, db, gen, jourList, memoList, taskList, hideDone,
                 jourSearch, failures, assigned>>

SettleToggleTaskDone(dev) ==
  /\ queue.tasks # <<>> /\ Head(queue.tasks).k = "toggleTaskDone"
  /\ LET req == Head(queue.tasks)
         s == IF dev THEN DeviceFailure ELSE idbPut("tasks", req.arg)
     IN /\ db' = s.db
        /\ gen' = s.gen
        /\ IF s.err # "none"
           THEN /\ queue' = Deq("tasks")
                /\ ev' = Event("toggleTaskDone", s.err, TRUE, NoCaller)
           ELSE /\ queue' = renderTasks(Deq("tasks"), currentJourTitle, hideDone, req.caller)
                /\ ev' = Event("toggleTaskDone", "none", FALSE, NoCaller)
  /\ failures' = IF dev THEN failures + 1 ELSE failures
  /\ UNCHANGED <<started, today, currentJourTitle, jourList, memoList, taskList, hideDone,
                 jourSearch, assigned>>

\* ------------------------------------------------------- other controls
ChangeHideDone ==
  /\ CanStart
  /\ hideDone' = ~hideDone
  /\ queue' = renderTasks(queue, currentJourTitle, ~hideDone, Caller("renderTasks", 0))
  /\ ev' = Event("click", "none", FALSE, NoCaller)
  /\ started' = started + 1
  /\ UNCHANGED <<today, currentJourTitle, db, gen, jourList, memoList, taskList,
                 jourSearch, failures, assigned>>

InputJourSearch(x) ==
  /\ CanStart
  /\ x # jourSearch
  /\ jourSearch' = x
  /\ queue' = renderJour(queue, x, Caller("renderJour", 0))
  /\ ev' = Event("click", "none", FALSE, NoCaller)
  /\ started' = started + 1
  /\ UNCHANGED <<today, currentJourTitle, db, gen, jourList, memoList, taskList,
                 hideDone, failures, assigned>>

ClickRefreshJour ==
  /\ CanStart
  /\ queue' = renderJour(queue, jourSearch, Caller("renderJour", 0))
  /\ ev' = Event("click", "none", FALSE, NoCaller)
  /\ started' = started + 1
  /\ UNCHANGED <<today, currentJourTitle, db, gen, jourList, memoList, taskList,
                 hideDone, jourSearch, failures, assigned>>

\* midnight (UTC) passes
Tick ==
  /\ today < MaxDay
  /\ today' = today + 1
  /\ ev' = Event("tick", "none", FALSE, NoCaller)
  /\ UNCHANGED <<started, currentJourTitle, db, gen, queue, jourList, memoList, taskList,
                 hideDone, jourSearch, failures, assigned>>

\* ------------------------------------------------------------ the program
\* openDB() on a fresh database, let currentJourTitle = todayISO(), and main()
\* up to the await in its call of ensureTodayJour()
Init ==
  /\ today = 1
  /\ currentJourTitle = todayISO
  /\ db = [jour |-> {}, memos |-> {}, tasks |-> {}]
  /\ gen = [jour |-> 1, memos |-> 1, tasks |-> 1]
  /\ queue = ensureTodayJour([jour |-> <<>>, memos |-> <<>>, tasks |-> <<>>],
                             Caller("main", 0))
  /\ jourList = <<>>
  /\ memoList = <<>>
  /\ taskList = <<>>
  /\ hideDone = FALSE
  /\ jourSearch = 0
  /\ failures = 0
  /\ assigned = [jour |-> <<>>, memos |-> <<>>, tasks |-> <<>>]
  /\ started = 0
  /\ ev = Event("main", "none", FALSE, NoCaller)

Next ==
  \/ ClickNewToday
  \/ \E i \in 1..MaxJourKey : ClickOpenJour(i)
  \/ \E i \in 1..MaxJourKey : ClickDelJour(i)
  \/ \E v \in Inputs : ClickAddMemo(v)
  \/ \E i \in 1..MaxKey, v \in Inputs : ClickEditMemo(i, v)
  \/ \E v \in TaskTitles \cup {"", "null"} : ClickAddTask(v)
  \/ \E i \in 1..MaxKey : ClickDelMemo(i)
  \/ \E i \in 1..MaxKey : ClickDelTask(i)
  \/ \E i \in 1..MaxKey : ClickToggle(i)
  \/ ChangeHideDone
  \/ \E x \in {0} \cup Days : InputJourSearch(x)
  \/ ClickRefreshJour
  \/ Tick
  \/ \E dev \in Fails : SettleEnsureTodayJour(dev)
  \/ \E dev \in Fails : SettleRenderJour(dev)
  \/ \E dev \in Fails : SettleRenderMemos(dev)
  \/ \E dev \in Fails : SettleRenderTasks(dev)
  \/ \E dev \in Fails : SettleDeleteJourFind(dev)
  \/ \E dev \in Fails : SettleDeleteJourMemos(dev)
  \/ \E dev \in Fails : SettleDeleteJourTasks(dev)
  \/ \E dev \in Fails : SettleDeleteJourDelMemo(dev)
  \/ \E dev \in Fails : SettleDeleteJourDelTask(dev)
  \/ \E dev \in Fails : SettleDeleteJourDelJour(dev)
  \/ \E dev \in Fails : SettleAddMemo(dev)
  \/ \E dev \in Fails : SettleEditMemo(dev)
  \/ \E dev \in Fails : SettleAddTask(dev)
  \/ \E dev \in Fails : SettleDeleteMemo(dev)
  \/ \E dev \in Fails : SettleDeleteTask(dev)
  \/ \E dev \in Fails : SettleToggleTaskDone(dev)

Spec == Init /\ [][Next]_vars

\* ================================================================ claims
JourWithTitle(t) == {r \in db.jour : r.jour_title = t}

\* C1: in every reachable state no two records of the Journal collection have
\* the same title.
C1_UniqueTitle ==
  \A a, b \in db.jour : a.jour_title = b.jour_title => a = b

\* an insert of a title that is already stored was tried while two journals exist
C1_Witness ==
  /\ ev.k = "ensureTodayJour" /\ ev.err = "ConstraintViolation"
  /\ Cardinality(db.jour) = 2

\* C4: ensureJournal treats only a ConstraintViolation of the journal insert as
\* success; when the insert fails with a device error, ensureJournal fails and the
\* failure reaches its caller.
C4_DeviceFailureReachesCaller ==
  (ev.k = "ensureTodayJour" /\ ev.err = "DeviceFailure") => ev.thrown

\* C5: after ensureJournal completes, the active journal pointer equals the ensured
\* title and exactly one Journal record with that title exists.
C5_GetOrCreate ==
  ev.done.fn \in {"main", "ensureTodayJour"} =>
    /\ currentJourTitle = ev.done.title
    /\ Cardinality(JourWithTitle(ev.done.title)) = 1

\* C6: in each collection the keys handed out by insert are pairwise distinct and
\* strictly increase in insertion order over the whole history, and every stored
\* key is one of them, so a key freed by a delete is never handed out again.
C6_KeysIncrease ==
  \A s \in Stores :
    /\ \A i, j \in 1..Len(assigned[s]) : i < j => assigned[s][i] < assigned[s][j]
    /\ Keys(s) \subseteq Range(assigned[s])

\* the journal of day 1 was deleted and created again, under a larger key
C6_Witness ==
  /\ Len(assigned.jour) >= 2
  /\ \E r \in db.jour : r.jour_title = 1 /\ r.jour_id > 1
  /\ 1 \notin Keys("jour")

\* C7: inserting a Journal record whose title equals that of a stored Journal
\* record fails with ConstraintViolation and leaves the Journal collection as it
\* was; the first record is the only one with that title.
C7_DuplicateInsertRejected ==
  [][(/\ queue.jour # <<>>
      /\ Head(queue.jour).k = "ensureTodayJour"
      /\ JourWithTitle(Head(queue.jour).arg.jour_title) # {}
      /\ ev'.k = "ensureTodayJour"
      /\ failures' = failures)
     => /\ ev'.err = "ConstraintViolation"
        /\ db' = db
        /\ Cardinality({r \in db'.jour :
                          r.jour_title = Head(queue.jour).arg.jour_title}) = 1]_vars

\* a duplicate insert was rejected and one record holds the title
C7_Witness ==
  /\ ev.k = "ensureTodayJour" /\ ev.err = "ConstraintViolation"
  /\ Cardinality(JourWithTitle(currentJourTitle)) = 1

\* C2: once deleteJournalCascade(T) has completed without a storage failure, no
\* Memo and no Task has journalTitle = T and no Journal has title T; stated for a
\* T other than the title the cascade ensures at its end (today's).
C2_CascadeRemovesAll ==
  (/\ ev.done.fn = "deleteJour"
   /\ ev.done.res \in {"none", "ConstraintViolation"}
   /\ ev.done.T # ev.done.title)
  => /\ \A m \in db.memos : m.jour_title # ev.done.T
     /\ \A t \in db.tasks : t.jour_title # ev.done.T
     /\ JourWithTitle(ev.done.T) = {}

\* C3: whenever no operation is in flight, every Memo and every Task has a
\* journalTitle that is the title of a stored Journal record.
C3_ReferentialIntegrity ==
  Idle =>
    /\ \A m \in db.memos : JourWithTitle(m.jour_title) # {}
    /\ \A t \in db.tasks : JourWithTitle(t.jour_title) # {}

\* C8: toggling the same Task twice returns the stored record to what it was: of
\* two toggles of one task that are pending together, the second writes back the
\* record that is stored before the first.
C8_ToggleTwiceRestores ==
  (/\ Len(queue.tasks) >= 2
   /\ queue.tasks[1].k = "toggleTaskDone"
   /\ queue.tasks[2].k = "toggleTaskDone"
   /\ queue.tasks[1].arg.id = queue.tasks[2].arg.id)
  => \A t \in db.tasks : t.id = queue.tasks[1].arg.id => queue.tasks[2].arg = t

\* C9: the put of toggleDone writes the negation of the done value that is stored
\* for that key at the moment of the write.
C9_ToggleNegatesStored ==
  (queue.tasks # <<>> /\ Head(queue.tasks).k = "toggleTaskDone") =>
    \A t \in db.tasks :
      t.id = Head(queue.tasks).arg.id => Head(queue.tasks).arg.done = 1 - t.done

\* every pending put of editMemo carries a text the user typed
C10_PutOnlyWithText ==
  \A i \in 1..Len(queue.memos) :
    queue.memos[i].k = "editMemo" => queue.memos[i].arg.memo_title \in Texts

\* a rejected or cancelled edit changes no store and issues no request; a put of
\* editMemo leaves the other stores and the other memos alone and, of the stored
\* memo with that key, replaces the text alone
C10_EditStep ==
  /\ ev'.k \in {"editMemo.blank", "editMemo.cancel"} =>
       /\ db' = db
       /\ gen' = gen
       /\ queue' = queue
  /\ (/\ queue.memos # <<>>
      /\ Head(queue.memos).k = "editMemo"
      /\ ev'.k = "editMemo" /\ ev'.err = "none")
     => LET id == Head(queue.memos).arg.memo_id
            v == Head(queue.memos).arg.memo_title
        IN /\ db'.jour = db.jour
           /\ db'.tasks = db.tasks
           /\ {m \in db'.memos : m.memo_id # id} = {m \in db.memos : m.memo_id # id}
           /\ \A old \in db.memos :
                old.memo_id = id =>
                  {m \in db'.memos : m.memo_id = id} = {[old EXCEPT !.memo_title = v]}

C11_FetchOf(s, T) ==
  LET got == idbIndexGetAll(s, "jour_title", T).val
      want == {r \in db[s] : r.jour_title = T}
  IN /\ idbIndexGetAll(s, "jour_title", T).err = "none"
     /\ Range(got) = want
     /\ Len(got) = Cardinality(want)

\* what renderMemos and renderTasks (all tasks shown) draw is the stored records
\* of the title they asked for
C11_RenderStep ==
  /\ (ev'.k = "renderMemos" /\ ev'.err = "none") =>
       /\ Range(memoList') = {m \in db.memos : m.jour_title = Head(queue.memos).arg}
       /\ Len(memoList') = Cardinality(Range(memoList'))
  /\ (ev'.k = "renderTasks" /\ ev'.err = "none" /\ ~Head(queue.tasks).arg.hideDone) =>
       /\ Range(taskList') = {t \in db.tasks : t.jour_title = Head(queue.tasks).arg.title}
       /\ Len(taskList') = Cardinality(Range(taskList'))

\* C11: for every title T and every reachable state of the stores, fetchByIndex on
\* journalTitle = T returns exactly the Memo (likewise Task) records whose
\* journalTitle is T, none missing and none extra, and nothing when none match.
C11_FetchByIndexExact ==
  /\ [](\A s \in {"memos", "tasks"} : \A T \in 0..MaxDay : C11_FetchOf(s, T))
  /\ [][C11_RenderStep]_vars

\* renderMemos drew the memos of one journal while a memo of another is stored
C11_Witness ==
  /\ ev.k = "renderMemos" /\ ev.err = "none"
  /\ memoList # <<>>
  /\ \E m \in db.memos : m.jour_title # memoList[1].jour_title

\* C12: after deleteJournalCascade(T) has completed, for any T, the active journal
\* pointer is today's title (the one its ensureJournal read) and a Journal record
\* with that title exists.
C12_CascadeResetsPointer ==
  (ev.done.fn = "deleteJour" /\ ev.done.res # "notarget") =>
    /\ currentJourTitle = ev.done.title
    /\ JourWithTitle(ev.done.title) # {}

\* a deleteJour that was invoked on one journal with one memo and one task of it,
\* with nothing pending and no handler started since, has completed and neither
\* its deletes nor its insert failed
C13_ScenarioDone ==
  /\ ev.done.fn = "deleteJour"
  /\ ev.done.scn
  /\ ev.done.at = started
  /\ ev.done.res \in {"none", "ConstraintViolation"}

\* C13 as stated: from a store holding exactly one Journal T, one Memo and one Task
\* of T, after deleteJournalCascade(T) has completed the Memo, the Task and the
\* Journal collection are empty.
C13_AllEmpty ==
  C13_ScenarioDone => db.memos = {} /\ db.tasks = {} /\ db.jour = {}

\* C13 amended: from that store, after deleteJournalCascade(T) has completed the
\* Memo and the Task collection are empty and the Journal collection holds one
\* record, the journal of today's title that the cascade ensured at its end, under
\* a new key; the record of T with its old key is gone.
C13_EmptyButToday ==
  C13_ScenarioDone =>
    /\ db.memos = {} /\ db.tasks = {}
    /\ Cardinality(db.jour) = 1
    /\ \A j \in db.jour :
         /\ j.jour_title = ev.done.title
         /\ Len(assigned.jour) >= 2
         /\ j.jour_id = assigned.jour[Len(assigned.jour)]
         /\ \A i \in 1..(Len(assigned.jour) - 1) : assigned.jour[i] < j.jour_id

\* the cascade of the scenario has completed, on another day than T's
C13_Witness ==
  C13_ScenarioDone /\ ev.done.T # ev.done.title /\ assigned.memos # <<>>

\* the step of deleteJour(T) that has fetched the journals, when none has title T
C14_NoTargetStep ==
  (/\ queue.jour # <<>>
   /\ Head(queue.jour).k = "deleteJour"
   /\ JourWithTitle(Head(queue.jour).cas.T) = {}
   /\ ev'.k = "deleteJour" /\ ev'.err = "none")
  => /\ db' = db
     /\ gen' = gen
     /\ currentJourTitle' = currentJourTitle
     /\ queue' = Deq("jour")
     /\ ev'.done.fn = "deleteJour" /\ ev'.done.res = "notarget"
     /\ ~ev'.thrown

\* C14: deleteJournalCascade(T) when no Journal record has title T returns without
\* effect: no record of any collection is deleted or written, no request is issued,
\* and the active journal pointer is unchanged.
C14_NoTargetNoEffect == [][C14_NoTargetStep]_vars

\* a cascade found no journal of T and returned while a memo of T is stored
C14_Witness ==
  /\ ev.k = "deleteJour"
  /\ ev.done.fn = "deleteJour" /\ ev.done.res = "notarget"
  /\ \E m \in db.memos : m.jour_title = ev.done.T

\* the requests a step has appended to the queue of a store
C15_Issued(s) == {queue'[s][i] : i \in (Len(queue[s]) + 1)..Len(queue'[s])}

\* the step that runs setCurrentJour(title): the pointer becomes the title of a
\* listed row, no store changes, and the requests it issues are the three reads of
\* renderAll for that title
C15_SwitchStep ==
  ev'.k = "setCurrentJour" =>
    /\ \E i \in 1..Len(jourList) : currentJourTitle' = jourList[i].r.jour_title
    /\ db' = db
    /\ gen' = gen
    /\ \A s \in Stores :
         /\ Len(queue'[s]) = Len(queue[s]) + 1
         /\ SubSeq(queue'[s], 1, Len(queue[s])) = queue[s]
    /\ \A r \in C15_Issued("jour") : r.k = "renderJour"
    /\ \A r \in C15_Issued("memos") :
         r.k = "renderMemos" /\ r.arg = currentJourTitle' /\ r.caller.T = currentJourTitle'
    /\ \A r \in C15_Issued("tasks") : r.k = "renderTasks" /\ r.arg.title = currentJourTitle'

\* the settling of renderJour, renderMemos and renderTasks writes no store
C15_RenderStep ==
  ev'.k \in {"renderJour", "renderMemos", "renderTasks"} => db' = db /\ gen' = gen

\* C15: switchActiveJournal(title) sets the active journal pointer to title, for a
\* title that is stored or not, and leaves the Journal, Memo and Task collections
\* unchanged: it performs no storage write.
C15_SwitchNoWrite == [][C15_SwitchStep /\ C15_RenderStep]_vars

\* the pointer was switched to the title of a listed journal that is not stored
C15_Witness ==
  ev.k = "setCurrentJour" /\ JourWithTitle(currentJourTitle) = {}

\* the store a delete request of the program is issued on
C16_StoreOf ==
  [deleteMemo |-> "memos", deleteTask |-> "tasks", deleteJour_delMemo |-> "memos",
   deleteJour_delTask |-> "tasks", deleteJour_delJour |-> "jour"]

C16_Label ==
  [deleteMemo |-> "deleteMemo", deleteTask |-> "deleteTask",
   deleteJour_delMemo |-> "deleteJour.delMemo", deleteJour_delTask |-> "deleteJour.delTask",
   deleteJour_delJour |-> "deleteJour.delJour"]

\* a delete that the device carries out succeeds, removes the record with the key
\* if there is one, at most one record, and changes nothing else
C16_DeleteStep ==
  \A d \in DOMAIN C16_StoreOf :
    LET s == C16_StoreOf[d] IN
    (/\ queue[s] # <<>>
     /\ Head(queue[s]).k = C16_Label[d]
     /\ ev'.k = C16_Label[d]
     /\ failures' = failures)
    => /\ ev'.err = "none" /\ ~ev'.thrown
       /\ db'[s] = {r \in db[s] : r[keyPath[s]] # Head(queue[s]).arg}
       /\ Cardinality(db[s] \ db'[s]) <= 1
       /\ Head(queue[s]).arg \notin Keys(s) => db' = db
       /\ \A o \in Stores \ {s} : db'[o] = db[o]
       /\ gen' = gen

\* C16: deleteByKey(collection, key) removes at most the one record with that key
\* and leaves all other records unchanged; when no record has the key it succeeds
\* as a no-op, so deleting the same Memo or Task twice is harmless.
C16_DeleteByKey == [][C16_DeleteStep]_vars

\* the same memo was deleted twice: the second delete has succeeded while the
\* re-render of the first is still pending
C16_Witness ==
  /\ ev.k = "deleteMemo" /\ ev.err = "none"
  /\ Len(queue.memos) = 2
  /\ \A i \in 1..2 : queue.memos[i].k = "renderMemos" /\ queue.memos[i].caller.fn = "deleteMemo"
  /\ queue.memos[1].caller.T = queue.memos[2].caller.T
  /\ queue.memos[1].caller.T \notin Keys("memos")

\* C17: whenever no operation or render is in flight, the displayed memo list and
\* task list are the stored Memo and Task records of the active journal (the tasks
\* through the hide-done filter) and the displayed journal list is the stored
\* Journal collection (through the search filter).
C17_UIIsEngine ==
  Idle =>
    /\ memoList = SeqByKey({m \in db.memos : m.jour_title = currentJourTitle}, "memo_id")
    /\ taskList = TaskRows(SeqByKey({t \in db.tasks : t.jour_title = currentJourTitle}, "id"),
                           hideDone)
    /\ jourList = JourRows(SeqByKey(db.jour, "jour_id"), jourSearch)

\* every stored task has done 0 or 1
C18_DoneIsFlag == \A t \in db.tasks : t.done \in {0, 1}

\* the insert of addTask stores one new record, with done = 0
C18_AddStep ==
  (ev'.k = "addTask" /\ ev'.err = "none") =>
    /\ db.tasks \subseteq db'.tasks
    /\ Cardinality(db'.tasks \ db.tasks) = 1
    /\ \A t \in db'.tasks \ db.tasks : t.done = 0

\* C18: every Task record is created with done = 0, and in every reachable state
\* the done of every stored Task is 0 or 1.
C18_DoneZeroOrOne == [] C18_DoneIsFlag /\ [][C18_AddStep]_vars

\* a toggle has stored done = 1
C18_Witness ==
  /\ ev.k = "toggleTaskDone" /\ ev.err = "none"
  /\ \E t \in db.tasks : t.done = 1

\* the deletes of a cascade are issued in the order of the fetched arrays: a memo
\* delete is for the next fetched memo, a task delete comes after every memo
\* delete has been acknowledged, the journal delete after every task delete
C19_InSequence ==
  \A r \in AllReqs(queue) :
    /\ r.k = "deleteJour.delMemo" =>
         /\ r.cas.mi < Len(r.cas.memos) /\ r.arg = r.cas.memos[r.cas.mi + 1].memo_id
         /\ r.cas.ti = 0
    /\ r.k = "deleteJour.delTask" =>
         /\ r.cas.mi = Len(r.cas.memos)
         /\ r.cas.ti < Len(r.cas.tasks) /\ r.arg = r.cas.tasks[r.cas.ti + 1].id
    /\ r.k = "deleteJour.delJour" =>
         /\ r.cas.mi = Len(r.cas.memos) /\ r.cas.ti = Len(r.cas.tasks)
         /\ r.arg = r.cas.target.jour_id

\* when the journal delete of a cascade is carried out, no memo and no task that
\* its fetch returned is stored
C19_JournalLastStep ==
  (/\ queue.jour # <<>>
   /\ Head(queue.jour).k = "deleteJour.delJour"
   /\ ev'.k = "deleteJour.delJour" /\ ev'.err = "none")
  => LET cas == Head(queue.jour).cas
     IN /\ \A i \in 1..Len(cas.memos) : cas.memos[i].memo_id \notin Keys("memos")
        /\ \A i \in 1..Len(cas.tasks) : cas.tasks[i].id \notin Keys("tasks")

\* C19: deleteJournalCascade performs its deletes strictly in sequence, each awaited
\* before the next is issued: the fetched Memos, then the fetched Tasks, then the
\* Journal record last; so the Journal record of T is never removed while a Memo or
\* Task returned by the fetch is still stored.
C19_CascadeOrder == [] C19_InSequence /\ [][C19_JournalLastStep]_vars

\* the store of each delete step of deleteJour
C20_DeleteSteps ==
  [memos |-> "deleteJour.delMemo", tasks |-> "deleteJour.delTask", jour |-> "deleteJour.delJour"]

\* a delete of deleteJour that fails with a device error: deleteJour rejects, the
\* step changes no store and not the pointer, and the cascade issues nothing more;
\* when the cascade has run alone, the journal it was to delete is still stored
C20_FailedDeleteStep ==
  \A s \in Stores :
    (/\ queue[s] # <<>>
     /\ Head(queue[s]).k = C20_DeleteSteps[s]
     /\ ev'.k = C20_DeleteSteps[s]
     /\ ev'.err = "DeviceFailure")
    => /\ ev'.thrown /\ ev'.done = NoCaller
       /\ db' = db
       /\ gen' = gen
       /\ currentJourTitle' = currentJourTitle
       /\ queue' = Deq(s)
       /\ (Head(queue[s]).caller.alone /\ Head(queue[s]).caller.at = started) =>
            /\ Head(queue[s]).cas.target \in db'.jour
            /\ \A i \in 1..Head(queue[s]).cas.mi :
                 Head(queue[s]).cas.memos[i].memo_id \notin Keys("memos")
            /\ \A i \in 1..Head(queue[s]).cas.ti :
                 Head(queue[s]).cas.tasks[i].id \notin Keys("tasks")

\* the failed delete leaves the queues one request shorter: nothing is issued in
\* its place, no retry, no later delete, no ensureTodayJour, no render
C20_StopsThere ==
  (ev'.k \in {"deleteJour.delMemo", "deleteJour.delTask", "deleteJour.delJour"}
   /\ ev'.err = "DeviceFailure")
  => Pending(queue') = Pending(queue) - 1

C21_Changed(s) == (db[s] \ db'[s]) \cup (db'[s] \ db[s])

\* the store on which each request of a deleteJour is pending
C21_StoreOf ==
  [find |-> "jour", memos |-> "memos", tasks |-> "tasks", delMemo |-> "memos",
   delTask |-> "tasks", delJour |-> "jour", ensure |-> "jour", rJour |-> "jour",
   rMemos |-> "memos", rTasks |-> "tasks"]

C21_Label ==
  [find |-> "deleteJour", memos |-> "deleteJour.memos", tasks |-> "deleteJour.tasks",
   delMemo |-> "deleteJour.delMemo", delTask |-> "deleteJour.delTask",
   delJour |-> "deleteJour.delJour", ensure |-> "ensureTodayJour", rJour |-> "renderJour",
   rMemos |-> "renderMemos", rTasks |-> "renderTasks"]

\* every step of a deleteJour(T), its ensureTodayJour and renders included, changes
\* of the memos and tasks only records of T and of the journals only records whose
\* title is T or the title its ensureTodayJour read
C21_CascadeStep ==
  \A d \in DOMAIN C21_StoreOf :
    LET s == C21_StoreOf[d] IN
    (/\ queue[s] # <<>>
     /\ Head(queue[s]).k = C21_Label[d]
     /\ Head(queue[s]).caller.fn = "deleteJour"
     /\ ev'.k = C21_Label[d])
    => /\ \A r \in C21_Changed("memos") \cup C21_Changed("tasks") :
            r.jour_title = Head(queue[s]).caller.T
       /\ \A j \in C21_Changed("jour") :
            j.jour_title \in {Head(queue[s]).caller.T, Head(queue[s]).caller.title}

\* C21: deleteJournalCascade(T) touches only T's data: no step of it changes a Memo
\* or Task whose journalTitle differs from T, or a Journal record whose title is
\* neither T nor today's title.
C21_OnlyTsData == [][C21_CascadeStep]_vars

\* a cascade of T has completed and a memo of another journal is stored
C21_Witness ==
  /\ ev.done.fn = "deleteJour" /\ ev.done.res \in {"none", "ConstraintViolation"}
  /\ JourWithTitle(ev.done.T) = {}
  /\ \E m \in db.memos : m.jour_title # ev.done.T

\* the keys of a store that were handed out and whose record has been removed
C22_Removed(s) == {k \in Range(assigned[s]) : k \notin Keys(s)}

\* no deleteMemo, deleteTask or deleteJour has a request pending
C22_NoDeleteInFlight ==
  \A q \in AllReqs(queue) : q.caller.fn \notin {"deleteMemo", "deleteTask", "deleteJour"}

\* a step taken while no delete is in flight stores no memo or task under a key
\* whose record has been removed
C22_NoneReturns ==
  C22_NoDeleteInFlight
  => \A s \in {"memos", "tasks"} :
       \A k \in C22_Removed(s) : \A r \in db'[s] : r[keyPath[s]] # k

\* C22: a deleted record stays deleted: once deleteTask(k), or a cascade that
\* removed task k, has completed, no Task record with key k exists in any later
\* state, even when a toggle for that task was triggered from a list rendered
\* before the delete; the same holds for a Memo and editMemo.
C22_DeletedStaysDeleted == [][C22_NoneReturns]_vars

\* C23: whenever no operation is in flight, the active journal pointer names a
\* journal that exists in storage, for every interleaving of ensureTodayJour,
\* setCurrentJour (invoked with titles from a rendered journal list) and
\* deleteJour.
C23_PointerNamesStoredJournal == Idle => JourWithTitle(currentJourTitle) # {}

====
